---------------------------- MODULE Spec2Model ----------------------------
(***************************************************************************)
(* The hybrid retrieval core of the Enterprise RAG knowledge base:         *)
(* QdrantVectorStore (vector_store.py) with its callers RAGChain.retrieve  *)
(* and RAGChain.query (rag_chain.py) and the /ingest, /upload and          *)
(* /collection/reset handlers (main.py), run by several store instances    *)
(* against one shared Qdrant index.                                        *)
(*                                                                         *)
(* A text is a sequence of whitespace-free words.  A word is named by a    *)
(* label; WordLen gives the number of characters it stands for and Lower   *)
(* its lowercased form.  A Python dict is a function with a set of string  *)
(* keys as its domain; an Optional value is the empty set (None) or a      *)
(* singleton.  A score is a fraction [n, d] of two integers.               *)
(***************************************************************************)
EXTENDS Integers, Sequences, FiniteSets, TLC

VARIABLES
    collExists,   \* Index: the collection settings.qdrant_collection_name exists
    collDim,      \* Index: size of the collection's "dense" vector space
    points,       \* Index: the stored points, in insertion order
    rrfK,         \* Index: the constant of the backend's built-in "rrf" fusion
    nextId,       \* uuid.uuid4(): the next unused point id
    pc,           \* per store instance: where its current call stands
    locals,       \* per store instance: add_documents' local variables
    hashSeed,     \* per store instance: the hash seed of the Python process running it
    last,         \* the call that returned (or raised) in the latest step, if any
    hist,         \* history: add_documents calls made and points destroyed
    tmpdir        \* the temporary files of /upload: those that exist, and how many were made

vars == <<collExists, collDim, points, rrfK, nextId, pc, locals, hashSeed, last, hist,
          tmpdir>>

-----------------------------------------------------------------------------
(* Bounds of the model *)

\* add_documents calls over a run
MaxAdds == 2
\* delete_collection calls over a run
MaxDeletes == 1
\* words of a text handed to _generate_sparse_vectors on its own
MaxWords == 3
\* /upload requests over a run
MaxUploads == 2

\* the store instances (QdrantVectorStore objects), each run by a caller of its own
Clients == {1, 2}

-----------------------------------------------------------------------------
(* Settings (config.py) *)

top_k_results == 5
chunk_size == 1000
chunk_overlap == 200
\* size of the "dense" vector space _ensure_collection creates
DenseSize == 1536
\* divisor of the term hash in _generate_sparse_vectors
SparseSpace == 100000
\* dimension of the vectors the configured embedding model returns
EmbeddingDim == 1536

-----------------------------------------------------------------------------
(* Python values *)

None == {}
Some(v) == {v}
TheValue(opt) == CHOOSE v \in opt : TRUE

EmptyDict == <<>>

\* {**a, **b}: the keys of both, b's value where both have the key
DictMerge(a, b) ==
    [k \in (DOMAIN a) \cup (DOMAIN b) |-> IF k \in DOMAIN b THEN b[k] ELSE a[k]]

\* DictWithout that leaves the key in
DictWithoutNothing(d, key) == d

\* {k: v for k, v in d.items() if k != key}
DictWithout(d, key) == [k \in (DOMAIN d) \ {key} |-> d[k]]

\* d.get(key, default)
DictGet(d, key, default) == IF key \in DOMAIN d THEN d[key] ELSE default

Range(s) == {s[i] : i \in DOMAIN s}

RECURSIVE Concat(_)
\* the concatenation of a sequence of sequences (list.extend in a loop)
Concat(ss) == IF ss = <<>> THEN <<>> ELSE Head(ss) \o Concat(Tail(ss))

RECURSIVE SumSeq(_)
SumSeq(s) == IF s = <<>> THEN 0 ELSE Head(s) + SumSeq(Tail(s))

\* zip(a, b, c, d) stops at the shortest of its arguments
Min4(a, b, c, d) ==
    CHOOSE m \in {a, b, c, d} : \A x \in {a, b, c, d} : m <= x

-----------------------------------------------------------------------------
(* Texts *)

\* len(word)
WordLen(w) ==
    CASE w = "Alpha" -> 600
      [] w = "alpha" -> 600
      [] w = "beta"  -> 600
      [] w = "ai"    -> 2
      [] w = "Gamma" -> 5
      [] w = "gamma" -> 5

\* word.lower()
Lower(w) ==
    CASE w = "Alpha" -> "alpha"
      [] w = "Gamma" -> "gamma"
      [] OTHER       -> w

\* a text is the sequence of its words, which one blank separates; the text
\* that holds white space only is the sequence of the one piece Blank
Blank == " "
BlankText == <<Blank>>
IsWord(w) == w # Blank

\* text.lower().split()
LowerWords(text) ==
    LET words == SelectSeq(text, IsWord)
    IN  [i \in DOMAIN words |-> Lower(words[i])]

-----------------------------------------------------------------------------
(* RecursiveCharacterTextSplitter(chunk_size, chunk_overlap, len).split_text *)
(* on a text whose words are all shorter than chunk_size: the text is cut   *)
(* at its blanks, each blank staying in front of the word that follows it;  *)
(* the pieces are merged into chunks of at most chunk_size characters; a    *)
(* new chunk starts with the trailing pieces of the previous one that fit   *)
(* into chunk_overlap characters; every chunk is stripped of the white      *)
(* space at its ends, and a chunk that is empty after that is dropped.      *)
(* A chunk is written as the sequence of its words; the blank in front of   *)
(* its first word is the one the strip removes.                              *)

\* TextSplitter.__init__ raises ValueError for an overlap larger than the
\* chunk size, and for no other overlap
SplitterAccepts(size, overlap) == overlap <= size

SepLen(n) == IF n > 0 THEN 1 ELSE 0

RECURSIVE DropFront(_, _, _, _, _)
\* the words kept for the next chunk after one chunk was emitted
DropFront(size, overlap, cur, total, len) ==
    IF total > overlap
       \/ (total + len + SepLen(Len(cur)) > size /\ total > 0)
    THEN DropFront(size, overlap, Tail(cur),
                   total - (WordLen(Head(cur)) + SepLen(Len(cur) - 1)),
                   len)
    ELSE <<cur, total>>

RECURSIVE MergeSplits(_, _, _, _, _, _)
MergeSplits(size, overlap, splits, cur, total, out) ==
    IF splits = <<>>
    THEN IF cur = <<>> THEN out ELSE Append(out, cur)
    ELSE LET d       == Head(splits)
             len     == WordLen(d)
             flushed == total + len + SepLen(Len(cur)) > size
                        /\ Len(cur) > 0
             kept    == IF flushed THEN DropFront(size, overlap, cur, total, len)
                                   ELSE <<cur, total>>
             cur2    == Append(kept[1], d)
             total2  == kept[2] + len + SepLen(Len(cur2) - 1)
         IN  MergeSplits(size, overlap, Tail(splits), cur2, total2,
                         IF flushed THEN Append(out, cur) ELSE out)

\* the splitter built with the given sizes, applied to one text
SplitText(size, overlap, doc) ==
    MergeSplits(size, overlap, SelectSeq(doc, IsWord), <<>>, 0, <<>>)

\* text_splitter.split_text(doc): the chunks of one document, in order
split_text(doc) == SplitText(chunk_size, chunk_overlap, doc)

-----------------------------------------------------------------------------
(* _generate_sparse_vectors *)

\* hash(word) in a process that drew the given seed (0 or 1) when it started:
\* Python randomises the hash of a str per process
PyHash(seed, w) ==
    CASE w = "alpha" -> IF seed = 0 THEN 4100007 ELSE 5200012
      [] w = "beta"  -> IF seed = 0 THEN 7300012 ELSE 900031
      [] w = "gamma" -> IF seed = 0 THEN 8800021 ELSE 6600031
      [] OTHER       -> IF seed = 0 THEN 15 ELSE 16

\* the order of sorted() on the words
WordOrder(w) ==
    CASE w = "Alpha" -> 1
      [] w = "Gamma" -> 2
      [] w = "ai"    -> 3
      [] w = "alpha" -> 4
      [] w = "beta"  -> 5
      [] w = "gamma" -> 6

\* a set of words as the sequence sorted() makes of it
SortedWords(ws) ==
    [i \in 1..Cardinality(ws) |->
        CHOOSE w \in ws :
            Cardinality({v \in ws : WordOrder(v) < WordOrder(w)}) = i - 1]

\* word_freq with the filter len(word) >= 2
WordFreqKeepShort(text) ==
    LET words == LowerWords(text)
        kept  == {words[i] : i \in {j \in DOMAIN words : WordLen(words[j]) >= 2}}
    IN  [w \in kept |-> Cardinality({i \in DOMAIN words : words[i] = w})]

\* word_freq of one text: the words longer than 2 characters and their counts
WordFreq(text) ==
    LET words == LowerWords(text)
        kept  == {words[i] : i \in {j \in DOMAIN words : WordLen(words[j]) > 2}}
    IN  [w \in kept |-> Cardinality({i \in DOMAIN words : words[i] = w})]

\* the sparse vector of one text
SparseVector(seed, text) ==
    LET word_freq == WordFreq(text)
        sorted    == SortedWords(DOMAIN word_freq)
    IN  [indices |-> [i \in DOMAIN sorted |-> PyHash(seed, sorted[i]) % SparseSpace],
         values  |-> [i \in DOMAIN sorted |-> word_freq[sorted[i]]]]

_generate_sparse_vectors(seed, texts) ==
    [i \in DOMAIN texts |-> SparseVector(seed, texts[i])]

-----------------------------------------------------------------------------
(* The embedder (OpenAIEmbeddings): one vector per text, in order.  A vector *)
(* is opaque to the store; it is modelled by its length and by the set of    *)
(* terms the text is about, which decides its cosine similarity.             *)

EmbedText(text) == [dim |-> EmbeddingDim, terms |-> Range(LowerWords(text))]

\* self.embeddings.embed_documents(texts)
embed_documents(texts) == [i \in DOMAIN texts |-> EmbedText(texts[i])]

\* self.embeddings.embed_query(query)
embed_query(query) == EmbedText(query)

-----------------------------------------------------------------------------
(* Fractions *)

Frac(n, d) == [n |-> n, d |-> d]
FracAdd(a, b) == Frac(a.n * b.d + b.n * a.d, a.d * b.d)
FracLess(a, b) == a.n * b.d < b.n * a.d
FracEq(a, b) == a.n * b.d = b.n * a.d

-----------------------------------------------------------------------------
(* The Qdrant index behind self.client *)

\* the dense sizes a collection of this name may have been created with
CollectionSizes == {768, DenseSize}

\* the constants the backend's "rrf" fusion may be built with
BackendRrfK == {2, 60}

\* cosine similarity of two embeddings, squared
CosineSq(q, v) ==
    IF q.terms = {} \/ v.terms = {}
    THEN Frac(0, 1)
    ELSE LET c == Cardinality(q.terms \cap v.terms)
         IN  Frac(c * c, Cardinality(q.terms) * Cardinality(v.terms))

\* dot product of the matching (index, value) pairs of two sparse vectors
SparseDot(q, s) ==
    SumSeq([i \in DOMAIN q.indices |->
        SumSeq([j \in DOMAIN s.indices |->
            IF q.indices[i] = s.indices[j] THEN q.values[i] * s.values[j] ELSE 0])])

\* the members of a set of positions as a sequence, best first, under a
\* strict total order Before(i, j)
Ranked(S, Before(_, _)) ==
    LET ahead == [i \in S |-> Cardinality({j \in S : Before(j, i)})]
    IN  [r \in 1..Cardinality(S) |-> CHOOSE i \in S : ahead[i] = r - 1]

Take(s, n) == IF n >= Len(s) THEN s ELSE SubSeq(s, 1, n)

\* the positions of the points that pass a query filter (None: all of them)
Passing(pts, query_filter) ==
    {i \in DOMAIN pts :
        \A f \in query_filter :
            \A k \in DOMAIN f :
                k \in DOMAIN pts[i].payload /\ pts[i].payload[k] = f[k]}

\* search_dense: descending similarity, earlier insert first among equals
search_dense(pts, query_filter, qv, limit) ==
    LET sim == [i \in DOMAIN pts |-> CosineSq(qv, pts[i].dense)]
        Before(i, j) == FracLess(sim[j], sim[i]) \/ (FracEq(sim[i], sim[j]) /\ i < j)
    IN  Take(Ranked(Passing(pts, query_filter), Before), limit)

\* search_sparse: the points sharing a term index with the query, descending
\* dot product, earlier insert first among equals
search_sparse(pts, query_filter, qs, limit) ==
    LET dot == [i \in DOMAIN pts |-> SparseDot(qs, pts[i].sparse)]
        hits == {i \in Passing(pts, query_filter) : dot[i] > 0}
        Before(i, j) == dot[i] > dot[j] \/ (dot[i] = dot[j] /\ i < j)
    IN  Take(Ranked(hits, Before), limit)

\* 1-based rank of position i in a ranked list, 0 when the list lacks it
RankIn(list, i) ==
    LET at == {r \in DOMAIN list : list[r] = i}
    IN  IF at = {} THEN 0 ELSE CHOOSE r \in at : TRUE

\* reciprocal rank fusion of one candidate: the sum over the lists holding it
RrfScore(k, dense, sparse, i) ==
    LET rd == RankIn(dense, i)
        rs == RankIn(sparse, i)
    IN  FracAdd(IF rd = 0 THEN Frac(0, 1) ELSE Frac(1, k + rd),
                IF rs = 0 THEN Frac(0, 1) ELSE Frac(1, k + rs))

\* the fused candidates, best first, each with its fused score: descending
\* fused score, then the better dense rank, then the id
Fuse(k, pts, dense, sparse) ==
    LET cands == Range(dense) \cup Range(sparse)
        score == [i \in cands |-> RrfScore(k, dense, sparse, i)]
        drank == [i \in cands |->
                    IF RankIn(dense, i) = 0 THEN Len(pts) + 1 ELSE RankIn(dense, i)]
        Before(i, j) ==
            \/ FracLess(score[j], score[i])
            \/ /\ FracEq(score[i], score[j])
               /\ \/ drank[i] < drank[j]
                  \/ (drank[i] = drank[j] /\ pts[i].id < pts[j].id)
        order == Ranked(cands, Before)
    IN  [r \in DOMAIN order |-> [at |-> order[r], score |-> score[order[r]]]]

\* client.query_points(prefetch = [dense, sparse], query = rrf, limit):
\* the scored points it answers with
query_points(k, pts, query_filter, qv, qs, prefetch_limit, limit) ==
    LET dense  == search_dense(pts, query_filter, qv, prefetch_limit)
        sparse == search_sparse(pts, query_filter, qs, prefetch_limit)
        fused  == Take(Fuse(k, pts, dense, sparse), limit)
    IN  [r \in DOMAIN fused |->
            [id      |-> pts[fused[r].at].id,
             score   |-> fused[r].score,
             payload |-> pts[fused[r].at].payload]]

-----------------------------------------------------------------------------
(* Inputs *)

MetaA == [source |-> "a"]
MetaB == [source |-> "b"]
\* caller metadata with keys that add_documents uses itself
MetaC == [source |-> "a", chunk_index |-> 7, text |-> <<"gamma">>]

\* the (documents, metadatas) arguments of add_documents; metadatas None is <<>>
Batches ==
    { [documents |-> << <<"Alpha">> >>,               metadatas |-> <<>>],
      [documents |-> << <<"Alpha", "ai", "beta">> >>, metadatas |-> <<MetaC>>],
      [documents |-> <<BlankText>>,                   metadatas |-> <<>>],
      [documents |-> << <<>>, <<"beta", "ai">>, <<"Alpha", "beta">> >>,
       metadatas |-> <<MetaA, MetaB, MetaA>>] }

\* the (query, top_k, filter_conditions) arguments of hybrid_search
Searches ==
    { [query |-> <<"alpha">>,      top_k |-> None,    filter_conditions |-> None],
      [query |-> <<"alpha">>,      top_k |-> Some(1), filter_conditions |-> Some(MetaA)],
      [query |-> <<"beta", "ai">>, top_k |-> Some(1), filter_conditions |-> None],
      [query |-> <<"beta", "ai">>, top_k |-> Some(0), filter_conditions |-> None] }

-----------------------------------------------------------------------------
(* State *)

NoLocals == <<>>
NoCall == [client |-> 0, op |-> "none", status |-> "none", args |-> <<>>, value |-> <<>>]

Returned(c, op, args, value) ==
    [client |-> c, op |-> op, status |-> "ok", args |-> args, value |-> value]
Raised(c, op, args, error) ==
    [client |-> c, op |-> op, status |-> error, args |-> args, value |-> <<>>]

StoredIds == {points[i].id : i \in DOMAIN points}

Init ==
    /\ \/ collExists = FALSE /\ collDim = DenseSize
       \/ collExists = TRUE /\ collDim \in CollectionSizes \ {DenseSize}
    /\ points = <<>>
    /\ rrfK \in BackendRrfK
    /\ nextId = 1
    /\ pc = [c \in Clients |-> "new"]
    /\ locals = [c \in Clients |-> NoLocals]
    /\ hashSeed = [c \in Clients |-> c - 1]
    /\ last = NoCall
    /\ hist = [adds |-> 0, batches |-> <<>>, destroyed |-> {}, deletes |-> 0]
    /\ tmpdir = [files |-> {}, created |-> 0]

-----------------------------------------------------------------------------
(* _ensure_collection: get_collections, then create_collection when the     *)
(* name is not among them.  It runs in __init__ and in /collection/reset.   *)

EnsureOp(c) == IF pc[c] \in {"new", "new_create"} THEN "__init__" ELSE "reset_collection"

\* _ensure_collection without the membership test: the collection is created
\* anew on every call
ensure_check_recreate(c) ==
    /\ pc[c] \in {"new", "reset_ensure"}
    /\ collExists' = TRUE
    /\ collDim' = DenseSize
    /\ points' = <<>>
    /\ pc' = [pc EXCEPT ![c] = "idle"]
    /\ locals' = [locals EXCEPT ![c] = NoLocals]
    /\ last' = Returned(c, EnsureOp(c), locals[c], <<>>)
    /\ UNCHANGED <<rrfK, nextId, hashSeed, hist, tmpdir>>

\* lines 45-48: the name is looked up; nothing else is compared
ensure_check(c) ==
    /\ pc[c] \in {"new", "reset_ensure"}
    /\ IF collExists
       THEN /\ pc' = [pc EXCEPT ![c] = "idle"]
            /\ locals' = [locals EXCEPT ![c] = NoLocals]
            /\ last' = Returned(c, EnsureOp(c), locals[c], <<>>)
       ELSE /\ pc' = [pc EXCEPT ![c] = IF pc[c] = "new" THEN "new_create" ELSE "reset_create"]
            /\ locals' = locals
            /\ last' = NoCall
    /\ UNCHANGED <<collExists, collDim, points, rrfK, nextId, hashSeed, hist, tmpdir>>

\* lines 49-62: create_collection; the backend refuses a name that exists
ensure_create(c) ==
    /\ pc[c] \in {"new_create", "reset_create"}
    /\ IF collExists
       THEN /\ pc' = [pc EXCEPT ![c] = IF pc[c] = "new_create" THEN "new" ELSE "idle"]
            /\ last' = Raised(c, EnsureOp(c), locals[c], "Conflict")
            /\ UNCHANGED <<collExists, collDim, points>>
       ELSE /\ collExists' = TRUE
            /\ collDim' = DenseSize
            /\ points' = <<>>
            /\ pc' = [pc EXCEPT ![c] = "idle"]
            /\ last' = Returned(c, EnsureOp(c), locals[c], <<>>)
    /\ locals' = [locals EXCEPT ![c] = NoLocals]
    /\ UNCHANGED <<rrfK, nextId, hashSeed, hist, tmpdir>>

-----------------------------------------------------------------------------
(* delete_collection, get_collection_info, /collection/reset *)

\* client.delete_collection on a collection that exists
DropCollection ==
    /\ collExists' = FALSE
    /\ collDim' = DenseSize
    /\ points' = <<>>
    /\ hist' = [hist EXCEPT !.destroyed = @ \cup StoredIds, !.deletes = @ + 1]

\* the outcomes of client.delete_collection on a missing collection
DeleteMissingOutcomes == {"ok", "NotFound"}

delete_collection(c) ==
    /\ pc[c] = "idle"
    /\ hist.deletes < MaxDeletes
    /\ IF collExists
       THEN /\ DropCollection
            /\ last' = Returned(c, "delete_collection", <<>>, <<>>)
       ELSE /\ \E outcome \in DeleteMissingOutcomes :
                 last' = IF outcome = "ok"
                         THEN Returned(c, "delete_collection", <<>>, <<>>)
                         ELSE Raised(c, "delete_collection", <<>>, outcome)
            /\ UNCHANGED <<collExists, collDim, points, hist>>
    /\ UNCHANGED <<rrfK, nextId, pc, locals, hashSeed, tmpdir>>

\* /collection/reset without the delete_collection call
reset_collection_no_delete(c) ==
    /\ pc[c] = "idle"
    /\ hist.deletes < MaxDeletes
    /\ pc' = [pc EXCEPT ![c] = "reset_ensure"]
    /\ locals' = [locals EXCEPT ![c] = [before |-> StoredIds]]
    /\ last' = NoCall
    /\ hist' = [hist EXCEPT !.deletes = @ + 1]
    /\ UNCHANGED <<collExists, collDim, points, rrfK, nextId, hashSeed, tmpdir>>

\* main.reset_collection: delete_collection, then _ensure_collection.  The
\* ids stored when the handler is entered are kept in locals as history.
reset_collection(c) ==
    /\ pc[c] = "idle"
    /\ hist.deletes < MaxDeletes
    /\ IF collExists
       THEN /\ DropCollection
            /\ pc' = [pc EXCEPT ![c] = "reset_ensure"]
            /\ locals' = [locals EXCEPT ![c] = [before |-> StoredIds]]
            /\ last' = NoCall
       ELSE /\ \E outcome \in DeleteMissingOutcomes :
                 IF outcome = "ok"
                 THEN /\ pc' = [pc EXCEPT ![c] = "reset_ensure"]
                      /\ locals' = [locals EXCEPT ![c] = [before |-> StoredIds]]
                      /\ last' = NoCall
                 ELSE /\ pc' = pc
                      /\ locals' = locals
                      /\ last' = Raised(c, "reset_collection", <<>>, outcome)
            /\ UNCHANGED <<collExists, collDim, points, hist>>
    /\ UNCHANGED <<rrfK, nextId, hashSeed, tmpdir>>

get_collection_info(c) ==
    /\ pc[c] = "idle"
    /\ last' = IF collExists
               THEN Returned(c, "get_collection_info", <<>>, [points_count |-> Len(points)])
               ELSE Raised(c, "get_collection_info", <<>>, "NotFound")
    /\ UNCHANGED <<collExists, collDim, points, rrfK, nextId, pc, locals, hashSeed, hist, tmpdir>>

-----------------------------------------------------------------------------
(* add_documents *)

\* ChunkMetadata in which the keys of the caller replace the computed ones
ChunkMetadataCallerWins(doc_metadata, chunk_idx, total, idx) ==
    DictMerge([chunk_index |-> chunk_idx, total_chunks |-> total, source_doc_index |-> idx],
              doc_metadata)

\* lines 96-101: the metadata of the chunk at chunk_idx of document idx
ChunkMetadata(doc_metadata, chunk_idx, total, idx) ==
    DictMerge(doc_metadata,
              [chunk_index |-> chunk_idx, total_chunks |-> total, source_doc_index |-> idx])

\* line 94: metadatas[idx] if metadatas else {} (idx is 0-based in the code)
DocMetadata(metadatas, d) == IF metadatas # <<>> THEN metadatas[d] ELSE EmptyDict

\* lines 86-91: all_chunks after the loop over the documents
AllChunks(documents) ==
    Concat([d \in DOMAIN documents |-> split_text(documents[d])])

\* lines 87-102: all_metadatas after the loop over the documents
AllMetadatas(documents, metadatas) ==
    Concat([d \in DOMAIN documents |->
        LET chunks == split_text(documents[d])
        IN  [i \in DOMAIN chunks |->
                ChunkMetadata(DocMetadata(metadatas, d), i - 1, Len(chunks), d - 1)]])

\* BuildPoints that takes the position in the batch as the id of a point
BuildPointsPositionIds(first_id, all_chunks, dense_vectors, sparse_vectors, all_metadatas) ==
    LET n == Min4(Len(all_chunks), Len(dense_vectors),
                  Len(sparse_vectors), Len(all_metadatas))
    IN  [i \in 1..n |->
            [id      |-> i,
             dense   |-> dense_vectors[i],
             sparse  |-> sparse_vectors[i],
             payload |-> DictMerge([text |-> all_chunks[i]], all_metadatas[i])]]

\* lines 112-133: the points, one per position of the zip, with ids first_id..
BuildPoints(first_id, all_chunks, dense_vectors, sparse_vectors, all_metadatas) ==
    LET n == Min4(Len(all_chunks), Len(dense_vectors),
                  Len(sparse_vectors), Len(all_metadatas))
    IN  [i \in 1..n |->
            [id      |-> first_id + i - 1,
             dense   |-> dense_vectors[i],
             sparse  |-> sparse_vectors[i],
             payload |-> DictMerge([text |-> all_chunks[i]], all_metadatas[i])]]

\* client.upsert: every point of the request is written in one step; a point
\* whose id is stored already replaces it
Upsert(stored, new) ==
    LET ids == {new[i].id : i \in DOMAIN new}
    IN  SelectSeq(stored, LAMBDA p : p.id \notin ids) \o new

\* add_documents that embeds and upserts chunk by chunk: when the embedder
\* fails after the first chunk, the point of that chunk is stored already
add_prepare_stream(c, batch) ==
    /\ pc[c] = "idle"
    /\ hist.adds < MaxAdds
    /\ LET all_chunks     == AllChunks(batch.documents)
           all_metadatas  == AllMetadatas(batch.documents, batch.metadatas)
           dense_vectors  == embed_documents(all_chunks)
           sparse_vectors == _generate_sparse_vectors(hashSeed[c], all_chunks)
           pts == BuildPoints(nextId, all_chunks, dense_vectors,
                              sparse_vectors, all_metadatas)
       IN  \/ /\ last' = Raised(c, "add_documents", batch, "UpstreamFailure")
              /\ hist' = [hist EXCEPT !.adds = @ + 1]
              /\ points' = IF collExists /\ collDim = DenseSize
                           THEN Upsert(points, Take(pts, 1))
                           ELSE points
              /\ nextId' = nextId + Len(Take(pts, 1))
              /\ UNCHANGED <<pc, locals>>
           \/ /\ pc' = [pc EXCEPT ![c] = "add_upsert"]
              /\ locals' = [locals EXCEPT ![c] =
                     [args    |-> batch,
                      points  |-> pts,
                      doc_ids |-> [i \in DOMAIN pts |-> pts[i].id]]]
              /\ nextId' = nextId + Len(pts)
              /\ hist' = [hist EXCEPT !.adds = @ + 1,
                                      !.batches = Append(@, {pts[i].id : i \in DOMAIN pts})]
              /\ last' = NoCall
              /\ points' = points
    /\ UNCHANGED <<collExists, collDim, rrfK, hashSeed, tmpdir>>

\* lines 79-133: the documents are split and the chunk metadata built;
\* embed_documents returns or raises; then the sparse vectors and the points
\* are built
add_prepare(c, batch) ==
    /\ pc[c] = "idle"
    /\ hist.adds < MaxAdds
    /\ LET all_chunks     == AllChunks(batch.documents)
           all_metadatas  == AllMetadatas(batch.documents, batch.metadatas)
           dense_vectors  == embed_documents(all_chunks)
           sparse_vectors == _generate_sparse_vectors(hashSeed[c], all_chunks)
           pts == BuildPoints(nextId, all_chunks, dense_vectors,
                              sparse_vectors, all_metadatas)
       IN  \/ /\ last' = Raised(c, "add_documents", batch, "UpstreamFailure")
              /\ hist' = [hist EXCEPT !.adds = @ + 1]
              /\ UNCHANGED <<pc, locals, nextId>>
           \/ /\ pc' = [pc EXCEPT ![c] = "add_upsert"]
              /\ locals' = [locals EXCEPT ![c] =
                     [args    |-> batch,
                      points  |-> pts,
                      doc_ids |-> [i \in DOMAIN pts |-> pts[i].id]]]
              /\ nextId' = nextId + Len(pts)
              /\ hist' = [hist EXCEPT !.adds = @ + 1,
                                      !.batches = Append(@, {pts[i].id : i \in DOMAIN pts})]
              /\ last' = NoCall
    /\ UNCHANGED <<collExists, collDim, points, rrfK, hashSeed, tmpdir>>

\* line 137: what the backend answers to an upsert of no point at all: it
\* stores nothing, and accepts the request or refuses it as an empty update
UpsertEmptyOutcomes == {"ok", "BadRequest"}

\* add_upsert that uploads the batch as the whole content of the collection
add_upsert_replace(c) ==
    /\ pc[c] = "add_upsert"
    /\ pc' = [pc EXCEPT ![c] = "idle"]
    /\ locals' = [locals EXCEPT ![c] = NoLocals]
    /\ LET l == locals[c]
           fits == \A i \in DOMAIN l.points : l.points[i].dense.dim = collDim
       IN  IF ~collExists
           THEN /\ last' = Raised(c, "add_documents", l.args, "NotFound")
                /\ points' = points
           ELSE IF ~fits
           THEN /\ last' = Raised(c, "add_documents", l.args, "BadRequest")
                /\ points' = points
           ELSE /\ points' = l.points
                /\ last' = Returned(c, "add_documents", l.args, l.doc_ids)
    /\ UNCHANGED <<collExists, collDim, rrfK, nextId, hashSeed, hist, tmpdir>>

\* add_upsert that logs the error of client.upsert and returns the ids
add_upsert_swallow(c) ==
    /\ pc[c] = "add_upsert"
    /\ pc' = [pc EXCEPT ![c] = "idle"]
    /\ locals' = [locals EXCEPT ![c] = NoLocals]
    /\ LET l == locals[c]
           fits == \A i \in DOMAIN l.points : l.points[i].dense.dim = collDim
       IN  IF ~collExists \/ ~fits
           THEN /\ last' = Returned(c, "add_documents", l.args, l.doc_ids)
                /\ points' = points
           ELSE /\ points' = Upsert(points, l.points)
                /\ last' = Returned(c, "add_documents", l.args, l.doc_ids)
    /\ UNCHANGED <<collExists, collDim, rrfK, nextId, hashSeed, hist, tmpdir>>

\* add_upsert with one upsert per point instead of one for the whole batch
add_upsert_per_point(c) ==
    /\ pc[c] = "add_upsert"
    /\ LET l == locals[c]
       IN  IF ~collExists \/ l.points = <<>>
           THEN /\ pc' = [pc EXCEPT ![c] = "idle"]
                /\ locals' = [locals EXCEPT ![c] = NoLocals]
                /\ last' = Raised(c, "add_documents", l.args, "NotFound")
                /\ points' = points
           ELSE /\ points' = Upsert(points, <<Head(l.points)>>)
                /\ IF Len(l.points) = 1
                   THEN /\ pc' = [pc EXCEPT ![c] = "idle"]
                        /\ locals' = [locals EXCEPT ![c] = NoLocals]
                        /\ last' = Returned(c, "add_documents", l.args, l.doc_ids)
                   ELSE /\ pc' = pc
                        /\ locals' = [locals EXCEPT ![c].points = Tail(@)]
                        /\ last' = NoCall
    /\ UNCHANGED <<collExists, collDim, rrfK, nextId, hashSeed, hist, tmpdir>>

\* add_upsert over a client that creates a missing collection before it
\* upserts
add_upsert_recreate(c) ==
    /\ pc[c] = "add_upsert"
    /\ pc' = [pc EXCEPT ![c] = "idle"]
    /\ locals' = [locals EXCEPT ![c] = NoLocals]
    /\ LET l == locals[c]
       IN  IF ~collExists
           THEN /\ collExists' = TRUE
                /\ collDim' = DenseSize
                /\ points' = l.points
                /\ last' = Returned(c, "add_documents", l.args, l.doc_ids)
           ELSE /\ UNCHANGED <<collExists, collDim>>
                /\ points' = Upsert(points, l.points)
                /\ last' = Returned(c, "add_documents", l.args, l.doc_ids)
    /\ UNCHANGED <<rrfK, nextId, hashSeed, hist, tmpdir>>

\* lines 135-143: the one upsert of all the points, then the ids are returned
add_upsert(c) ==
    /\ pc[c] = "add_upsert"
    /\ pc' = [pc EXCEPT ![c] = "idle"]
    /\ locals' = [locals EXCEPT ![c] = NoLocals]
    /\ LET l == locals[c]
           fits == \A i \in DOMAIN l.points : l.points[i].dense.dim = collDim
       IN  IF ~collExists
           THEN /\ last' = Raised(c, "add_documents", l.args, "NotFound")
                /\ points' = points
           ELSE IF ~fits
           THEN /\ last' = Raised(c, "add_documents", l.args, "BadRequest")
                /\ points' = points
           ELSE IF l.points = <<>>
           THEN /\ points' = points
                /\ \E outcome \in UpsertEmptyOutcomes :
                       last' = IF outcome = "ok"
                               THEN Returned(c, "add_documents", l.args, l.doc_ids)
                               ELSE Raised(c, "add_documents", l.args, outcome)
           ELSE /\ points' = Upsert(points, l.points)
                /\ last' = Returned(c, "add_documents", l.args, l.doc_ids)
    /\ UNCHANGED <<collExists, collDim, rrfK, nextId, hashSeed, hist, tmpdir>>

\* IngestResponse that counts the documents of the request
IngestResponseCountDocuments(request, doc_ids) ==
    [document_ids |-> doc_ids, count |-> Len(request.documents)]

\* main.py 172-175: the response of /ingest to a request for which
\* add_documents returned doc_ids
IngestResponse(request, doc_ids) ==
    [document_ids |-> doc_ids, count |-> Len(doc_ids)]

-----------------------------------------------------------------------------
(* hybrid_search *)

\* lines 199-200
EffectiveTopK(top_k) == IF top_k = None THEN top_k_results ELSE TheValue(top_k)

\* each prefetch limited to top_k
PrefetchLimitSingle(top_k) == top_k

\* lines 215 and 220: the limit of each prefetch
PrefetchLimit(top_k) == top_k * 2

\* the fused query limited like a prefetch
QueryLimitDouble(top_k) == top_k * 2

\* the fused query limited to one result less
QueryLimitOffByOne(top_k) == top_k - 1

\* line 226: the limit of the fused query
QueryLimit(top_k) == top_k

\* lines 209-227: the filter the query_points call carries: the call has no
\* query_filter argument and its prefetches have no filter, whatever
\* filter_conditions is
QueryFilter(filter_conditions) == None

\* FormatResults that reads the text of every result from the first point
FormatResultsTorn(scored) ==
    [r \in DOMAIN scored |->
        [id       |-> scored[r].id,
         score    |-> scored[r].score,
         text     |-> DictGet(scored[1].payload, "text", <<>>),
         metadata |-> DictWithout(scored[r].payload, "text")]]

\* FormatResults that puts each result in front of the ones before it
FormatResultsReversed(scored) ==
    [r \in DOMAIN scored |->
        [id       |-> scored[Len(scored) + 1 - r].id,
         score    |-> scored[Len(scored) + 1 - r].score,
         text     |-> DictGet(scored[Len(scored) + 1 - r].payload, "text", <<>>),
         metadata |-> DictWithout(scored[Len(scored) + 1 - r].payload, "text")]]

\* lines 229-239: one result per scored point, in the order of the answer
FormatResults(scored) ==
    [r \in DOMAIN scored |->
        [id       |-> scored[r].id,
         score    |-> scored[r].score,
         text     |-> DictGet(scored[r].payload, "text", <<>>),
         metadata |-> DictWithout(scored[r].payload, "text")]]

\* the outcomes of client.query_points with limit 0
LimitZeroOutcomes == {"ok", "BadRequest"}

\* lines 199-242: the ways a hybrid_search call can end on the index as it
\* stands: embed_query raises; query_points raises; the formatted results
SearchOutcomes(c, query, top_k, filter_conditions) ==
    LET args == [query |-> query, top_k |-> top_k,
                 filter_conditions |-> filter_conditions]
        k == EffectiveTopK(top_k)
        query_dense  == embed_query(query)
        query_sparse == _generate_sparse_vectors(hashSeed[c], <<query>>)[1]
        scored == query_points(rrfK, points, QueryFilter(filter_conditions),
                               query_dense, query_sparse,
                               PrefetchLimit(k), QueryLimit(k))
    IN  {Raised(c, "hybrid_search", args, "UpstreamFailure")}
        \cup
        (IF ~collExists
         THEN {Raised(c, "hybrid_search", args, "NotFound")}
         ELSE IF query_dense.dim # collDim
         THEN {Raised(c, "hybrid_search", args, "BadRequest")}
         ELSE IF QueryLimit(k) < 1
         THEN {IF outcome = "ok"
               THEN Returned(c, "hybrid_search", args, <<>>)
               ELSE Raised(c, "hybrid_search", args, outcome) :
                   outcome \in LimitZeroOutcomes}
         ELSE {Returned(c, "hybrid_search", args, FormatResults(scored))})

hybrid_search(c, query, top_k, filter_conditions) ==
    /\ pc[c] = "idle"
    /\ last' \in SearchOutcomes(c, query, top_k, filter_conditions)
    /\ UNCHANGED <<collExists, collDim, points, rrfK, nextId, pc, locals, hashSeed, hist, tmpdir>>

\* RAGChain.retrieve: the question, top_k and filter_conditions are handed on
retrieve(c, question, top_k, filter_conditions) ==
    hybrid_search(c, question, top_k, filter_conditions)

-----------------------------------------------------------------------------
(* RAGChain.query *)

\* the (question, top_k, return_contexts) of a /query request
Queries ==
    { [question |-> <<"alpha">>,      top_k |-> None,    return_contexts |-> TRUE],
      [question |-> <<"beta", "ai">>, top_k |-> Some(1), return_contexts |-> FALSE] }

\* rag_chain.py 164: the answer of a query that retrieved no context; an
\* answer is a record, with its text when the text is known
NoContextsAnswer ==
    [text |-> "I couldn't find any relevant information to answer your question."]

\* the answer the chain generates from the contexts: the language model is
\* opaque, its answer is known by the contexts it was given
GeneratedAnswer(contexts) == [from |-> [r \in DOMAIN contexts |-> contexts[r].id]]

\* QueryOutcomes that leaves the contexts out of a result without contexts
QueryOutcomesBareEmpty(c, q, retrieved) ==
    LET args == [question |-> q.question, top_k |-> q.top_k,
                 return_contexts |-> q.return_contexts]
    IN  IF retrieved.status # "ok"
        THEN {Raised(c, "query", args, retrieved.status)}
        ELSE IF retrieved.value = <<>>
        THEN {Returned(c, "query", args, [answer |-> NoContextsAnswer])}
        ELSE {Raised(c, "query", args, "GenerationFailure"),
              Returned(c, "query", args,
                 IF q.return_contexts
                 THEN [answer |-> GeneratedAnswer(retrieved.value),
                       contexts |-> Some(retrieved.value)]
                 ELSE [answer |-> GeneratedAnswer(retrieved.value)])}

\* rag_chain.py 136-177: the ways a query call can end, given how its
\* retrieve ended: the error of retrieve passes through; no contexts give the
\* fixed answer without a call of the chain, with contexts [] or None;
\* otherwise the chain answers or raises, and the result has the key
\* contexts only when return_contexts is set
QueryOutcomes(c, q, retrieved) ==
    LET args == [question |-> q.question, top_k |-> q.top_k,
                 return_contexts |-> q.return_contexts]
    IN  IF retrieved.status # "ok"
        THEN {Raised(c, "query", args, retrieved.status)}
        ELSE IF retrieved.value = <<>>
        THEN {Returned(c, "query", args,
                 [answer   |-> NoContextsAnswer,
                  contexts |-> IF q.return_contexts THEN Some(<<>>) ELSE None])}
        ELSE {Raised(c, "query", args, "GenerationFailure"),
              Returned(c, "query", args,
                 IF q.return_contexts
                 THEN [answer |-> GeneratedAnswer(retrieved.value),
                       contexts |-> Some(retrieved.value)]
                 ELSE [answer |-> GeneratedAnswer(retrieved.value)])}

query(c, q) ==
    /\ pc[c] = "idle"
    /\ \E retrieved \in SearchOutcomes(c, q.question, q.top_k, None) :
          last' \in QueryOutcomes(c, q, retrieved)
    /\ UNCHANGED <<collExists, collDim, points, rrfK, nextId, pc, locals, hashSeed, hist, tmpdir>>

-----------------------------------------------------------------------------

Next ==
    \E c \in Clients :
        \/ ensure_check(c)
        \/ ensure_create(c)
        \/ delete_collection(c)
        \/ reset_collection(c)
        \/ get_collection_info(c)
        \/ \E batch \in Batches : add_prepare(c, batch)
        \/ add_upsert(c)
        \/ \E s \in Searches : retrieve(c, s.query, s.top_k, s.filter_conditions)
        \/ \E q \in Queries : query(c, q)

Spec == Init /\ [][Next]_vars

-----------------------------------------------------------------------------
(* _generate_sparse_vectors on its own: a store instance vectorizes a list  *)
(* of texts, and the same list is vectorized again, by the same instance or *)
(* by the other one (the function keeps no state between calls, so runs on  *)
(* different lists are independent).                                        *)

SparseWords == {"Alpha", "alpha", "beta", "Gamma", "gamma", "ai"}

\* the texts of at most MaxWords words
SparseTexts == UNION {[1..n -> SparseWords] : n \in 0..MaxWords}

\* the lists of texts: one text, or a text followed by one without a kept word
SparseInputs ==
    {<<t>> : t \in SparseTexts}
        \cup {<<t, u>> : t \in SparseTexts, u \in {<<>>, <<"ai">>}}

generate_sparse(c, texts) ==
    /\ last = NoCall \/ last.args = texts
    /\ last' = Returned(c, "_generate_sparse_vectors", texts,
                        _generate_sparse_vectors(hashSeed[c], texts))
    /\ UNCHANGED <<collExists, collDim, points, rrfK, nextId, pc, locals, hashSeed, hist, tmpdir>>

NextSparse == \E c \in Clients : \E texts \in SparseInputs : generate_sparse(c, texts)

SpecSparse == Init /\ [][NextSparse]_vars

-----------------------------------------------------------------------------
(* The splitter of add_documents on its own: the splitter is built with the *)
(* sizes of the settings and splits one document; the same document is      *)
(* split again under the same or other settings (the splitter keeps no      *)
(* state between documents).                                                *)

\* chunk_size and chunk_overlap as the environment can set them: the
\* defaults, no overlap, a large overlap, an overlap equal to the chunk size
\* and an overlap above it
ChunkSettings ==
    { [chunk_size |-> chunk_size, chunk_overlap |-> chunk_overlap],
      [chunk_size |-> chunk_size, chunk_overlap |-> 0],
      [chunk_size |-> 700,        chunk_overlap |-> 600],
      [chunk_size |-> chunk_size, chunk_overlap |-> chunk_size],
      [chunk_size |-> chunk_size, chunk_overlap |-> chunk_size + chunk_overlap] }

\* the documents: the texts of at most MaxWords words and the blank text
ChunkTexts == SparseTexts \cup {BlankText}

chunk_document(c, cfg, doc) ==
    /\ IF last = NoCall THEN TRUE ELSE last.args.doc = doc
    /\ last' = IF SplitterAccepts(cfg.chunk_size, cfg.chunk_overlap)
               THEN Returned(c, "split_text", [settings |-> cfg, doc |-> doc],
                             SplitText(cfg.chunk_size, cfg.chunk_overlap, doc))
               ELSE Raised(c, "split_text", [settings |-> cfg, doc |-> doc],
                           "ValueError")
    /\ UNCHANGED <<collExists, collDim, points, rrfK, nextId, pc, locals, hashSeed, hist, tmpdir>>

NextChunk ==
    \E c \in Clients : \E cfg \in ChunkSettings : \E doc \in ChunkTexts :
        chunk_document(c, cfg, doc)

SpecChunk == Init /\ [][NextChunk]_vars

-----------------------------------------------------------------------------
(* /upload (main.py 184-228) with DocumentProcessor.load_file: the upload   *)
(* is written to a temporary file, the file is loaded, and its documents    *)
(* are put into the index.  The handler is a coroutine: it gives way to     *)
(* other requests at `await file.read()` and nowhere else.  An error of any *)
(* step is answered with HTTP 500; the status of the call names the error.  *)

\* the uploaded files: their name and the text a loader finds in them
Uploads ==
    { [filename |-> "notes.txt", text |-> <<"Alpha", "ai", "beta">>],
      [filename |-> "notes.md",  text |-> <<"beta">>],
      [filename |-> "paper.pdf", text |-> <<"Gamma", "beta">>] }

\* Path(filename).suffix
Suffix(filename) ==
    CASE filename = "notes.txt" -> ".txt"
      [] filename = "notes.md"  -> ".md"
      [] filename = "paper.pdf" -> ".pdf"

\* DocumentProcessor.SUPPORTED_EXTENSIONS
SUPPORTED_EXTENSIONS == {".pdf", ".docx", ".txt"}

\* tempfile.NamedTemporaryFile(delete=False, suffix=...): a name not used before
TmpPath(n, suffix) == [tmp |-> n, suffix |-> suffix]

\* document_processor.py 30-78: the ways load_file can end for the temporary
\* file holding an upload: the file is gone; its type is not supported; the
\* loader raises; the documents, one per loaded document, with the file's
\* source, name and extension as metadata
LoadOutcomes(path, file) ==
    IF path \notin tmpdir.files
    THEN {[status |-> "FileNotFoundError", documents |-> <<>>]}
    ELSE IF path.suffix \notin SUPPORTED_EXTENSIONS
    THEN {[status |-> "ValueError", documents |-> <<>>]}
    ELSE {[status |-> "LoaderFailure", documents |-> <<>>],
          [status |-> "ok",
           documents |-> << [text     |-> file.text,
                             metadata |-> [source    |-> path,
                                           filename  |-> path,
                                           extension |-> path.suffix]] >>]}

\* vector_store.py 64-143 run without a break: the ways add_documents can
\* end on the index as it stands, with the index it leaves
AddOutcomes(c, batch) ==
    LET all_chunks     == AllChunks(batch.documents)
        all_metadatas  == AllMetadatas(batch.documents, batch.metadatas)
        dense_vectors  == embed_documents(all_chunks)
        sparse_vectors == _generate_sparse_vectors(hashSeed[c], all_chunks)
        pts    == BuildPoints(nextId, all_chunks, dense_vectors,
                              sparse_vectors, all_metadatas)
        fits   == \A i \in DOMAIN pts : pts[i].dense.dim = collDim
        failed(error) == [status |-> error, value |-> <<>>,
                          points |-> points, nextId |-> nextId]
        stored(new)   == [status |-> "ok", value |-> [i \in DOMAIN new |-> new[i].id],
                          points |-> Upsert(points, new), nextId |-> nextId + Len(new)]
    IN  {failed("UpstreamFailure")}
        \cup
        (IF ~collExists THEN {failed("NotFound")}
         ELSE IF ~fits THEN {failed("BadRequest")}
         ELSE IF pts = <<>>
         THEN {IF outcome = "ok" THEN stored(pts) ELSE failed(outcome) :
                  outcome \in UpsertEmptyOutcomes}
         ELSE {stored(pts)})

\* main.py 195-199, up to the await: the temporary file is created
upload_create(c, file) ==
    /\ pc[c] = "idle"
    /\ tmpdir.created < MaxUploads
    /\ LET tmp_path == TmpPath(tmpdir.created + 1, Suffix(file.filename))
       IN  /\ tmpdir' = [files |-> tmpdir.files \cup {tmp_path},
                         created |-> tmpdir.created + 1]
           /\ locals' = [locals EXCEPT ![c] = [file |-> file, tmp_path |-> tmp_path]]
    /\ pc' = [pc EXCEPT ![c] = "upload_read"]
    /\ last' = NoCall
    /\ UNCHANGED <<collExists, collDim, points, rrfK, nextId, hashSeed, hist>>

\* main.py 200-202: the upload is read and written to the temporary file;
\* when that raises, the `with` closes the file and the handler answers 500
upload_read(c) ==
    /\ pc[c] = "upload_read"
    /\ \/ /\ pc' = [pc EXCEPT ![c] = "upload_process"]
          /\ locals' = locals
          /\ last' = NoCall
       \/ /\ pc' = [pc EXCEPT ![c] = "idle"]
          /\ locals' = [locals EXCEPT ![c] = NoLocals]
          /\ last' = Raised(c, "upload_file", locals[c].file, "ReadFailure")
    /\ UNCHANGED <<collExists, collDim, points, rrfK, nextId, hashSeed, hist, tmpdir>>

\* main.py 204-228: the file is loaded and its documents are added; the
\* temporary file is removed in the `finally`, however that went
upload_process(c) ==
    /\ pc[c] = "upload_process"
    /\ LET l == locals[c]
       IN  /\ \E loaded \in LoadOutcomes(l.tmp_path, l.file) :
                 IF loaded.status # "ok"
                 THEN /\ last' = Raised(c, "upload_file", l.file, loaded.status)
                      /\ UNCHANGED <<points, nextId>>
                 ELSE LET documents == loaded.documents
                          texts     == [d \in DOMAIN documents |-> documents[d].text]
                          metadatas == [d \in DOMAIN documents |-> documents[d].metadata]
                      IN  \E added \in AddOutcomes(c, [documents |-> texts,
                                                       metadatas |-> metadatas]) :
                             /\ points' = added.points
                             /\ nextId' = added.nextId
                             /\ last' = IF added.status = "ok"
                                        THEN Returned(c, "upload_file", l.file,
                                                 [filename       |-> l.file.filename,
                                                  document_count |-> Len(documents),
                                                  chunk_count    |-> Len(added.value),
                                                  document_ids   |-> added.value])
                                        ELSE Raised(c, "upload_file", l.file, added.status)
           /\ tmpdir' = [tmpdir EXCEPT !.files = @ \ {l.tmp_path}]
    /\ pc' = [pc EXCEPT ![c] = "idle"]
    /\ locals' = [locals EXCEPT ![c] = NoLocals]
    /\ UNCHANGED <<collExists, collDim, rrfK, hashSeed, hist>>

NextUpload ==
    \E c \in Clients :
        \/ ensure_check(c)
        \/ ensure_create(c)
        \/ \E file \in Uploads : upload_create(c, file)
        \/ upload_read(c)
        \/ upload_process(c)

SpecUpload == Init /\ [][NextUpload]_vars

-----------------------------------------------------------------------------
(* Claims *)

SearchReturned == last.op = "hybrid_search" /\ last.status = "ok"
AddReturned == last.op = "add_documents" /\ last.status = "ok"

\* C1: at every moment the index holds, of the points of each add_documents
\* call, either all or none, and the point count get_collection_info returns
\* is the count of such an index: no search or info call can see a part of
\* a batch.
C1_BatchVisibleWholly ==
    /\ \A b \in DOMAIN hist.batches :
          \/ hist.batches[b] \cap StoredIds = {}
          \/ hist.batches[b] \subseteq StoredIds
    /\ (last.op = "get_collection_info" /\ last.status = "ok")
          => last.value.points_count = Cardinality(StoredIds)

\* a search answers from an index that holds one whole batch of several
\* points while the points of another call are built and not yet upserted
C1_Witness ==
    /\ SearchReturned
    /\ Len(last.value) >= 1
    /\ \E b \in DOMAIN hist.batches :
          Cardinality(hist.batches[b]) >= 2 /\ hist.batches[b] \subseteq StoredIds
    /\ \E c \in Clients :
          pc[c] = "add_upsert" /\ Len(locals[c].points) >= 2

\* the dict filter_conditions stands for: every key is present with that value
Satisfies(metadata, conditions) ==
    \A k \in DOMAIN conditions : k \in DOMAIN metadata /\ metadata[k] = conditions[k]

\* C2: a hybrid_search called with filter_conditions returns no result whose
\* metadata fails the filter.
C2_ResultsPassFilter ==
    (SearchReturned /\ last.args.filter_conditions # None)
        => \A r \in DOMAIN last.value :
              Satisfies(last.value[r].metadata, TheValue(last.args.filter_conditions))

\* C3: _ensure_collection never returns normally while the existing collection
\* has a dense size other than the one it asks for.
C3_ConflictRefused ==
    (last.op = "__init__" /\ last.status = "ok") => (collExists /\ collDim = DenseSize)

\* a step of _ensure_collection by c that ends the call
EnsureEnds(c) ==
    /\ pc[c] \in {"new", "reset_ensure", "new_create", "reset_create"}
    /\ pc'[c] \in {"new", "idle"}
    /\ last'.client = c

\* C4: a call of _ensure_collection that finds the collection existing with
\* the parameters it asks for leaves it as it is: it still exists, with the
\* same points in the same order, whatever was added since it was created.
C4_EnsureIdempotent ==
    [][\A c \in Clients :
          (EnsureEnds(c) /\ collExists /\ collDim = DenseSize)
              => (collExists' /\ collDim' = collDim /\ points' = points)]_vars

\* a store is constructed over a collection that holds points already
C4_Witness ==
    /\ last.op = "__init__"
    /\ last.status = "ok"
    /\ collDim = DenseSize
    /\ Len(points) >= 2

\* a call that needs the collection
NeedsCollection(op) == op \in {"add_documents", "hybrid_search", "get_collection_info"}

\* C5: while the collection does not exist, no step of add_documents,
\* hybrid_search or get_collection_info creates it or stores a point, and a
\* call of them that ends then ends with NotFound (or, when the embedder
\* failed before the index was asked, with that failure), never normally.
C5_MissingCollectionNotFound ==
    [][~collExists =>
          /\ (NeedsCollection(last'.op) \/ \E c \in Clients : pc'[c] = "add_upsert" /\ pc[c] = "idle")
                => (~collExists' /\ points' = points)
          /\ NeedsCollection(last'.op)
                => last'.status \in {"NotFound", "UpstreamFailure"}
          /\ (last'.op = "get_collection_info" \/ (last'.op = "add_documents" /\ pc[last'.client] = "add_upsert"))
                => last'.status = "NotFound"]_vars

\* add_documents has ended with NotFound after the collection was deleted
\* and not created again
C5_Witness ==
    /\ last.op = "add_documents"
    /\ last.status = "NotFound"
    /\ hist.deletes >= 1
    /\ ~collExists

\* C6: no point that was stored when the collection was deleted is stored
\* afterwards or returned by a later hybrid_search; when /collection/reset
\* returns the collection exists and holds none of the points it held when
\* the reset began, and holds no point at all when no other client has a
\* store yet.
C6_DeleteIrreversible ==
    /\ StoredIds \cap hist.destroyed = {}
    /\ SearchReturned =>
          \A r \in DOMAIN last.value : last.value[r].id \notin hist.destroyed
    /\ (last.op = "reset_collection" /\ last.status = "ok") =>
          /\ collExists
          /\ StoredIds \cap last.args.before = {}
          /\ (\A c \in Clients \ {last.client} : pc[c] \in {"new", "new_create"})
                => Len(points) = 0

\* /collection/reset has returned for a collection that held points, and no
\* other client has a store
C6_Witness ==
    /\ last.op = "reset_collection"
    /\ last.status = "ok"
    /\ Cardinality(last.args.before) >= 2
    /\ \A c \in Clients \ {last.client} : pc[c] \in {"new", "new_create"}

\* C7: the step in which add_documents ends with the embedder's failure
\* leaves the collection and its points as they were, takes no id and
\* returns none; the caller has no upsert pending.
C7_EmbedFailureAborts ==
    [][(last'.op = "add_documents" /\ last'.status = "UpstreamFailure") =>
          /\ points' = points
          /\ collExists' = collExists
          /\ collDim' = collDim
          /\ nextId' = nextId
          /\ last'.value = <<>>
          /\ pc'[last'.client] = "idle"
          /\ locals'[last'.client] = NoLocals]_vars

\* the embedder has failed in an add_documents on a collection that exists
\* with the store's own parameters and holds points
C7_Witness ==
    /\ last.op = "add_documents"
    /\ last.status = "UpstreamFailure"
    /\ Len(last.args.documents) >= 2
    /\ collExists
    /\ collDim = DenseSize
    /\ Len(points) >= 1

\* the stored point with the given id
PointOf(id) == points[CHOOSE i \in DOMAIN points : points[i].id = id]

\* C8: when add_documents returns, the i-th returned id is the id of a stored
\* point that carries the text of the i-th chunk, the i-th vector of the
\* embedder's answer, the sparse vector of the i-th chunk and the metadata
\* built for the i-th chunk; there is one id per chunk.
C8_PositionalAlignment ==
    AddReturned =>
        LET all_chunks     == AllChunks(last.args.documents)
            all_metadatas  == AllMetadatas(last.args.documents, last.args.metadatas)
            dense_vectors  == embed_documents(all_chunks)
            sparse_vectors == _generate_sparse_vectors(hashSeed[last.client], all_chunks)
        IN  /\ Len(last.value) = Len(all_chunks)
            /\ \A i \in DOMAIN last.value :
                  /\ last.value[i] \in StoredIds
                  /\ \A j \in DOMAIN last.value : last.value[j] = last.value[i] => j = i
                  /\ PointOf(last.value[i]).payload.text = all_chunks[i]
                  /\ PointOf(last.value[i]).dense = dense_vectors[i]
                  /\ PointOf(last.value[i]).sparse = sparse_vectors[i]
                  /\ DictWithout(PointOf(last.value[i]).payload, "text") = all_metadatas[i]

\* C9: hybrid_search returns at most top_k results, and at most
\* settings.top_k_results when top_k is not given.
C9_AtMostTopK ==
    SearchReturned =>
        Len(last.value) <= (IF last.args.top_k = None
                            THEN top_k_results
                            ELSE TheValue(last.args.top_k))

\* a search without top_k has returned top_k_results results from an index
\* that holds more points than that
C9_Witness ==
    /\ SearchReturned
    /\ last.args.top_k = None
    /\ Len(last.value) = top_k_results
    /\ Len(points) > top_k_results

\* the results of the last hybrid_search are the reciprocal rank fusion, with
\* constant k, of the best 2 * top_k dense and the best 2 * top_k sparse
\* candidates of the index: every result is a candidate of one of the two
\* lists and carries the sum over the lists that hold it of 1 / (k + rank),
\* the results come best first, and no candidate left out scores higher than
\* a returned one
FusedByRrf(k) ==
    SearchReturned =>
        LET top_k  == IF last.args.top_k = None THEN top_k_results
                                                ELSE TheValue(last.args.top_k)
            qv     == embed_query(last.args.query)
            qs     == _generate_sparse_vectors(hashSeed[last.client], <<last.args.query>>)[1]
            dense  == search_dense(points, None, qv, 2 * top_k)
            sparse == search_sparse(points, None, qs, 2 * top_k)
            cands  == Range(dense) \cup Range(sparse)
            At(r)  == CHOOSE i \in DOMAIN points : points[i].id = last.value[r].id
            score  == [i \in cands |-> RrfScore(k, dense, sparse, i)]
            n      == Len(last.value)
        IN  /\ n = IF top_k < Cardinality(cands) THEN top_k ELSE Cardinality(cands)
            /\ \A r \in 1..n :
                  /\ last.value[r].id \in StoredIds
                  /\ At(r) \in cands
                  /\ FracEq(last.value[r].score, score[At(r)])
            /\ \A r \in 1..n : \A q \in 1..n :
                  r < q => ~FracLess(last.value[r].score, last.value[q].score)
            /\ \A i \in cands :
                  (\A r \in 1..n : At(r) # i)
                      => \A r \in 1..n : ~FracLess(last.value[r].score, score[i])

\* C10 as amended: hybrid_search fuses the best 2 * top_k dense and the best
\* 2 * top_k sparse candidates by the reciprocal rank fusion of the index,
\* 1 / (k + rank) summed over the lists that hold a candidate, with the
\* constant k the index is built with: the call names the fusion and sets no
\* constant.
C10_FusedWithBackendK == FusedByRrf(rrfK)

\* C10 as stated: the fusion constant is 60.
C10_FusedWithK60 == FusedByRrf(60)

\* a search has returned several results of which one is in both candidate
\* lists and one in the dense list alone
C10_Witness ==
    /\ SearchReturned
    /\ Len(last.value) >= 2
    /\ LET top_k  == IF last.args.top_k = None THEN top_k_results
                                               ELSE TheValue(last.args.top_k)
           qs     == _generate_sparse_vectors(hashSeed[last.client], <<last.args.query>>)[1]
           sparse == search_sparse(points, None, qs, 2 * top_k)
           hit(r) == \E j \in DOMAIN sparse : points[sparse[j]].id = last.value[r].id
       IN  /\ \E r \in DOMAIN last.value : hit(r)
           /\ \E r \in DOMAIN last.value : ~hit(r)

SparseReturned == last.op = "_generate_sparse_vectors"

\* C13: two runs of _generate_sparse_vectors on the same texts, by the same
\* store instance or by another process, return the same sparse vectors.
C13_SparseDeterministic ==
    [][(SparseReturned /\ SparseReturned' /\ last'.args = last.args)
          => last'.value = last.value]_vars

\* C14: no index occurs twice in the indices of a sparse vector.
C14_UniqueIndices ==
    SparseReturned =>
        \A t \in DOMAIN last.value :
            \A i \in DOMAIN last.value[t].indices :
                \A j \in DOMAIN last.value[t].indices :
                    last.value[t].indices[i] = last.value[t].indices[j] => i = j

\* the lowercased tokens of a text that are longer than 2 characters
KeptTokens(text) ==
    {w \in {Lower(text[i]) : i \in DOMAIN text} : WordLen(w) > 2}

\* the occurrences of the token w in a text, whatever their case
Occurrences(text, w) == Cardinality({i \in DOMAIN text : Lower(text[i]) = w})

\* C15: the sparse vector of a text has exactly one entry per distinct
\* lowercased token longer than 2 characters, in the sorted order of the
\* tokens, with the term hash of the token as index and the number of its
\* occurrences as weight; a text without such a token has the empty vector,
\* and there is one vector per text.
C15_OneEntryPerToken ==
    SparseReturned =>
        /\ Len(last.value) = Len(last.args)
        /\ \A t \in DOMAIN last.args :
              LET tokens == KeptTokens(last.args[t])
                  sv     == last.value[t]
                  pos(w) == 1 + Cardinality({v \in tokens : WordOrder(v) < WordOrder(w)})
              IN  /\ Len(sv.indices) = Cardinality(tokens)
                  /\ Len(sv.values) = Cardinality(tokens)
                  /\ \A w \in tokens :
                        /\ sv.indices[pos(w)] = PyHash(hashSeed[last.client], w) % SparseSpace
                        /\ sv.values[pos(w)] = Occurrences(last.args[t], w)

\* a text with a token in two cases and a short token, followed by a text of
\* one short token only, has been vectorized
C15_Witness ==
    /\ SparseReturned
    /\ last.args = << <<"Gamma", "ai", "gamma">>, <<"ai">> >>
    /\ last.value[1].values = <<2>>
    /\ last.value[2] = [indices |-> <<>>, values |-> <<>>]

\* top_k as the last hybrid_search used it
LastTopK == IF last.args.top_k = None THEN top_k_results ELSE TheValue(last.args.top_k)

\* the dense and the sparse candidate list of the last hybrid_search
LastDense ==
    search_dense(points, None, embed_query(last.args.query), 2 * LastTopK)
LastSparse ==
    search_sparse(points, None,
                  _generate_sparse_vectors(hashSeed[last.client], <<last.args.query>>)[1],
                  2 * LastTopK)

\* the position in the index of the r-th result of the last hybrid_search
LastAt(r) == CHOOSE i \in DOMAIN points : points[i].id = last.value[r].id

\* C11: no result of a hybrid_search scores higher than a candidate that is
\* first in both candidate lists does (2 / (k + 1)); when there is such a
\* candidate it is the first result, and every result that is first in one
\* list only scores no higher and comes after it.
C11_FusionMonotone ==
    SearchReturned =>
        LET best == Frac(2, rrfK + 1)
            n    == Len(last.value)
            firstInBoth(i) ==
                /\ LastDense # <<>> /\ LastDense[1] = i
                /\ LastSparse # <<>> /\ LastSparse[1] = i
        IN  /\ \A r \in 1..n : ~FracLess(best, last.value[r].score)
            /\ \A r \in 1..n :
                  firstInBoth(LastAt(r)) =>
                      /\ r = 1
                      /\ FracEq(last.value[r].score, best)
                      /\ \A q \in 1..n : ~FracLess(last.value[r].score, last.value[q].score)
            /\ (n >= 1 /\ LastDense # <<>> /\ firstInBoth(LastDense[1]))
                  => LastAt(1) = LastDense[1]

\* a search has returned a candidate that is first in both lists together
\* with a candidate that is in both lists but first in neither, and with one
\* of the dense list alone
C11_Witness ==
    /\ SearchReturned
    /\ Len(last.value) >= 3
    /\ LastSparse # <<>>
    /\ LastDense[1] = LastSparse[1]
    /\ Len(LastSparse) >= 2
    /\ \E r \in DOMAIN last.value : RankIn(LastSparse, LastAt(r)) = 0

\* C12: two hybrid_search calls in a row with the same query and top_k, on
\* the index as it stands, return the same results in the same order with
\* the same scores.
C12_SearchDeterministic ==
    [][(/\ SearchReturned
        /\ SearchReturned'
        /\ last'.args.query = last.args.query
        /\ last'.args.top_k = last.args.top_k)
          => /\ Len(last'.value) = Len(last.value)
             /\ \A r \in DOMAIN last.value :
                   /\ last'.value[r].id = last.value[r].id
                   /\ last'.value[r].text = last.value[r].text
                   /\ last'.value[r].metadata = last.value[r].metadata
                   /\ FracEq(last'.value[r].score, last.value[r].score)]_vars

\* C16: a hybrid_search (with top_k of at least 1) on a collection that
\* exists and holds no point does not fail for that: unless the embedder
\* fails it returns the empty sequence, and RAGChain.query then returns its
\* fixed answer for no contexts.
C16_EmptyIsNormal ==
    (/\ last.op \in {"hybrid_search", "query"}
     /\ LastTopK >= 1
     /\ collExists
     /\ points = <<>>)
        => /\ last.status \in {"ok", "UpstreamFailure"}
           /\ (last.op = "hybrid_search" /\ last.status = "ok") => last.value = <<>>
           /\ (last.op = "query" /\ last.status = "ok")
                 => last.value.answer = NoContextsAnswer

\* the number of points of the batches that are in the index
StoredBatchPoints ==
    SumSeq([b \in DOMAIN hist.batches |->
               IF hist.batches[b] \subseteq StoredIds
               THEN Cardinality(hist.batches[b]) ELSE 0])

\* C17: when add_documents returns, every id it returns is the id of a stored
\* point; a stored point leaves the index only by a delete_collection, so
\* later searches and info calls run on an index that holds it; the index
\* holds as many points as the batches upserted into it have together, and
\* get_collection_info returns that count.
C17_ReadYourWrites ==
    [][/\ AddReturned' => \A i \in DOMAIN last'.value : last'.value[i] \in StoredIds'
       /\ hist'.deletes = hist.deletes => StoredIds \subseteq StoredIds'
       /\ Len(points') = StoredBatchPoints'
       /\ (last'.op = "get_collection_info" /\ last'.status = "ok")
             => last'.value.points_count = StoredBatchPoints']_vars

\* two add_documents calls have interleaved: the batch built second was
\* upserted first, and both are in the index when the later call returns
C17_Witness ==
    /\ AddReturned
    /\ Len(hist.batches) = 2
    /\ \A b \in DOMAIN hist.batches : hist.batches[b] \subseteq StoredIds
    /\ Len(points) >= 4
    /\ points[1].id > points[Len(points)].id

\* the point p is a whole chunk of some add_documents call: its text, both
\* vectors and its metadata are those of one chunk of one batch
WholeChunk(p) ==
    \E b \in Batches :
        LET all_chunks    == AllChunks(b.documents)
            all_metadatas == AllMetadatas(b.documents, b.metadatas)
        IN  \E j \in DOMAIN all_chunks :
                /\ p.payload = DictMerge([text |-> all_chunks[j]], all_metadatas[j])
                /\ p.dense = EmbedText(all_chunks[j])
                /\ \E c \in Clients : p.sparse = SparseVector(hashSeed[c], all_chunks[j])

\* C18: every result of a hybrid_search has the id, the text and the
\* metadata of one stored point, and that point is a whole chunk of one
\* add_documents call.
C18_NoTornResult ==
    SearchReturned =>
        \A r \in DOMAIN last.value :
            \E i \in DOMAIN points :
                /\ points[i].id = last.value[r].id
                /\ points[i].payload.text = last.value[r].text
                /\ DictWithout(points[i].payload, "text") = last.value[r].metadata
                /\ WholeChunk(points[i])

\* a search has returned chunks of different texts while the reset of
\* another caller stands between its delete and its create
C18_Witness ==
    /\ SearchReturned
    /\ Len(last.value) >= 2
    /\ last.value[1].text # last.value[2].text
    /\ \E c \in Clients : pc[c] \in {"reset_ensure", "reset_create"}

\* the ids of all the batches built so far
BatchIds == UNION {hist.batches[b] : b \in DOMAIN hist.batches}

\* C19: the ids add_documents generates for a batch differ from one another
\* and from every id generated before, stored or destroyed; no two stored
\* points have the same id; and a point that stays in the index stays as it
\* was inserted.
C19_IdsNeverReused ==
    [][/\ \A c \in Clients :
             (pc[c] = "idle" /\ pc'[c] = "add_upsert") =>
                 LET new == locals'[c].points
                     ids == {new[i].id : i \in DOMAIN new}
                 IN  /\ Cardinality(ids) = Len(new)
                     /\ ids \cap (BatchIds \cup StoredIds \cup hist.destroyed) = {}
                     /\ locals'[c].doc_ids = [i \in DOMAIN new |-> new[i].id]
       /\ Cardinality(StoredIds') = Len(points')
       /\ \A i \in DOMAIN points : \A j \in DOMAIN points' :
             points'[j].id = points[i].id => points'[j] = points[i]]_vars

\* add_documents has returned for a second batch after the points of the
\* first were destroyed by a delete
C19_Witness ==
    /\ AddReturned
    /\ Len(hist.batches) = 2
    /\ hist.destroyed # {}
    /\ Len(points) >= 2

\* C20: a call that ends with a failure of the embedder or of the index
\* returns no value and leaves no step of it pending; a call returns normally
\* only when the index accepted what it asked: add_documents only with its
\* points stored, hybrid_search, query and get_collection_info only on a
\* collection that exists (with vectors of the size sent), _ensure_collection
\* only with the collection existing, delete_collection only with it gone.
C20_FailuresSurfaced ==
    [][/\ last'.status \notin {"ok", "none"} =>
             /\ last'.value = <<>>
             /\ pc'[last'.client] \in {"idle", "new"}
             /\ locals'[last'.client] = NoLocals
       /\ last'.status = "ok" =>
             /\ last'.op = "add_documents" =>
                   /\ collExists
                   /\ \A i \in DOMAIN last'.value : last'.value[i] \in StoredIds'
             /\ last'.op \in {"hybrid_search", "query"} =>
                   collExists /\ collDim = EmbeddingDim
             /\ last'.op = "get_collection_info" => collExists
             /\ last'.op \in {"__init__", "reset_collection"} => collExists'
             /\ last'.op = "delete_collection" => ~collExists']_vars

\* embed_query has failed in a hybrid_search on a collection that holds
\* points
C20_Witness ==
    /\ last.op = "hybrid_search"
    /\ last.status = "UpstreamFailure"
    /\ collExists
    /\ collDim = DenseSize
    /\ Len(points) >= 1

\* the characters of a text: its words with one blank between two of them
Chars(text) ==
    IF text = BlankText THEN text
    ELSE [i \in 1..(2 * Len(text) - 1) |->
             IF i % 2 = 1 THEN text[(i + 1) \div 2] ELSE Blank]

RECURSIVE Rebuilt(_, _, _)
\* the texts that the chunks from the k-th on can add up to behind acc, when
\* each chunk is stripped of a front part that repeats the end of the text
\* rebuilt so far
Rebuilt(chunks, k, acc) ==
    IF k > Len(chunks) THEN {acc}
    ELSE LET cs == Chars(chunks[k])
             overlaps == {m \in 0..Len(cs) :
                             /\ m <= Len(acc)
                             /\ SubSeq(acc, Len(acc) - m + 1, Len(acc)) = SubSeq(cs, 1, m)}
         IN  UNION {Rebuilt(chunks, k + 1, acc \o SubSeq(cs, m + 1, Len(cs))) :
                       m \in overlaps}

ChunkReturned == last.op = "split_text" /\ last.status = "ok"

\* C21: under settings with chunk_overlap < chunk_size, the chunks of a
\* document, put together in order with the overlap regions stripped, are the
\* text of the document, character by character.
C21_ChunksRebuildText ==
    (ChunkReturned /\ last.args.settings.chunk_overlap < last.args.settings.chunk_size)
        => Chars(last.args.doc) \in Rebuilt(last.value, 1, <<>>)

\* C22: a splitter whose overlap is the chunk size or more is refused: the
\* chunking of add_documents fails and produces no chunk.
C22_OverlapRefused ==
    (last.op = "split_text"
        /\ last.args.settings.chunk_overlap >= last.args.settings.chunk_size)
        => last.status = "ValueError"


\* the number of chunks of the documents before the d-th
ChunksBefore(documents, d) ==
    SumSeq([e \in 1..(d - 1) |-> Len(split_text(documents[e]))])

ComputedKeys == {"chunk_index", "total_chunks", "source_doc_index"}

\* C23: when add_documents returns, the point of the chunk at 0-based
\* position i of the document at 0-based position d, a document of n chunks,
\* is stored with chunk_index = i, total_chunks = n, source_doc_index = d and
\* with every key of the metadata of that document (of no key beyond its own
\* when the call has no metadata); a key of the caller named like one of the
\* three computed keys has the computed value.
C23_ChunkMetadataStored ==
    AddReturned =>
        \A d \in DOMAIN last.args.documents :
            LET n    == Len(split_text(last.args.documents[d]))
                meta == IF last.args.metadatas = <<>> THEN EmptyDict
                        ELSE last.args.metadatas[d]
            IN  \A i \in 1..n :
                    LET payload ==
                            PointOf(last.value[ChunksBefore(last.args.documents, d) + i]).payload
                    IN  /\ payload.chunk_index = i - 1
                        /\ payload.total_chunks = n
                        /\ payload.source_doc_index = d - 1
                        /\ DOMAIN payload = DOMAIN meta \cup ComputedKeys \cup {"text"}
                        /\ \A k \in DOMAIN meta \ ComputedKeys : payload[k] = meta[k]

\* add_documents has returned for a document of two chunks whose metadata
\* has a key chunk_index of its own, and the second chunk is stored with the
\* computed index
C23_Witness ==
    /\ AddReturned
    /\ last.args.metadatas # <<>>
    /\ "chunk_index" \in DOMAIN last.args.metadatas[1]
    /\ last.args.metadatas[1].chunk_index # 1
    /\ Len(last.value) = 2
    /\ PointOf(last.value[2]).payload.chunk_index = 1
    /\ PointOf(last.value[2]).payload.source = last.args.metadatas[1].source


\* C24: every result of a hybrid_search has the fields id, score, text and
\* metadata: the id of a stored point, the score of the fusion for that
\* point, the text of the payload of the point, and as metadata the payload
\* without its text key, with no other key of the payload missing.
C24_ResultShape ==
    SearchReturned =>
        \A r \in DOMAIN last.value :
            LET res     == last.value[r]
                payload == points[LastAt(r)].payload
            IN  /\ DOMAIN res = {"id", "score", "text", "metadata"}
                /\ res.id \in StoredIds
                /\ FracEq(res.score, RrfScore(rrfK, LastDense, LastSparse, LastAt(r)))
                /\ res.text = payload.text
                /\ "text" \notin DOMAIN res.metadata
                /\ DOMAIN res.metadata = DOMAIN payload \ {"text"}
                /\ \A k \in DOMAIN res.metadata : res.metadata[k] = payload[k]

\* a hybrid_search has returned two results of different score, one for a
\* point stored with caller metadata and one for a point stored without
C24_Witness ==
    /\ SearchReturned
    /\ Len(last.value) >= 2
    /\ \E r, q \in DOMAIN last.value :
          /\ "source" \in DOMAIN last.value[r].metadata
          /\ "source" \notin DOMAIN last.value[q].metadata
          /\ FracLess(last.value[q].score, last.value[r].score)


\* what add_documents returned is one id per chunk, in the order of the
\* chunks, and not empty, and /ingest answers with these ids and their count
IdsPerChunk ==
    LET documents == last.args.documents
        response  == IngestResponse(last.args, last.value)
    IN  /\ last.value # <<>>
        /\ Len(last.value) = ChunksBefore(documents, Len(documents) + 1)
        /\ \A d \in DOMAIN documents :
              \A i \in 1..Len(split_text(documents[d])) :
                  LET id == last.value[ChunksBefore(documents, d) + i]
                  IN  /\ id \in StoredIds
                      /\ PointOf(id).payload.source_doc_index = d - 1
                      /\ PointOf(id).payload.chunk_index = i - 1
        /\ \A i, j \in DOMAIN last.value : last.value[i] = last.value[j] => i = j
        /\ response.document_ids = last.value
        /\ response.count = Len(response.document_ids)
        /\ response.count > 0

\* a text with at least one character that is not white space
HasWord(doc) == \E i \in DOMAIN doc : IsWord(doc[i])

C26_StoredPointsFound ==
    (SearchReturned /\ LastTopK >= 1 /\ points # <<>>) =>
        /\ Len(last.value) >= 1
        /\ \A r \in DOMAIN last.value :
              {"score", "text"} \subseteq DOMAIN last.value[r]
        /\ Len(points) <= LastTopK =>
              /\ Len(last.value) = Len(points)
              /\ {last.value[r].id : r \in DOMAIN last.value} = StoredIds

\* a hybrid_search has returned all the points of a collection that holds
\* several, of which not every one shares a word with the query
C26_Witness ==
    /\ SearchReturned
    /\ Len(points) >= 3
    /\ Len(points) <= LastTopK
    /\ Len(last.value) = Len(points)
    /\ Len(LastSparse) < Len(points)


\* the ways the retrieve of the last query can have returned
LastRetrieved ==
    {s \in SearchOutcomes(last.client, last.args.question, last.args.top_k, None) :
        s.status = "ok"}

\* C27: a query with return_contexts set that returns, returns an answer and
\* contexts, the contexts being the sequence hybrid_search returned, empty
\* when it found nothing; it has the fixed answer when the sequence is empty
\* and a generated one otherwise, and the generation is not run, and cannot
\* fail, on an empty sequence.
C27_AnswerAndContexts ==
    (last.op = "query" /\ last.args.return_contexts) =>
        /\ last.status = "ok" =>
              /\ DOMAIN last.value = {"answer", "contexts"}
              /\ last.value.contexts # None
              /\ \E s \in LastRetrieved :
                    /\ TheValue(last.value.contexts) = s.value
                    /\ last.value.answer = IF s.value = <<>>
                                           THEN NoContextsAnswer
                                           ELSE GeneratedAnswer(s.value)
        /\ last.status = "GenerationFailure" =>
              \E s \in LastRetrieved : s.value # <<>>

\* a query with return_contexts set has returned the answer generated from
\* several contexts
C27_Witness ==
    /\ last.op = "query"
    /\ last.status = "ok"
    /\ last.args.return_contexts
    /\ Len(TheValue(last.value.contexts)) >= 2
    /\ last.value.answer = GeneratedAnswer(TheValue(last.value.contexts))


\* C28: a run of _ensure_collection that found the collection absent ends
\* without error and with the collection existing, also when another run for
\* the same collection takes its steps in between: the check followed by the
\* create never makes one of two concurrent runs fail.
C28_ConcurrentEnsureSafe ==
    [][\A c \in Clients :
          (EnsureEnds(c) /\ pc[c] \in {"new_create", "reset_create"})
              => (last'.status = "ok" /\ collExists')]_vars


\* C29: when add_documents returns, the payload of the point of every chunk
\* has the text of that chunk under its text key, whatever keys the metadata
\* of the caller has, and the text of every result of a hybrid_search is
\* the text of a chunk that add_documents split off a document.
C29_PayloadTextIsChunkText ==
    /\ AddReturned =>
          LET all_chunks == AllChunks(last.args.documents)
          IN  \A i \in DOMAIN last.value :
                  PointOf(last.value[i]).payload.text = all_chunks[i]
    /\ SearchReturned =>
          \A r \in DOMAIN last.value :
              \E batch \in Batches :
                  last.value[r].text \in Range(AllChunks(batch.documents))


\* the temporary files of the /upload requests that have not finished
TmpInUse == {locals[c].tmp_path : c \in {d \in Clients : pc[d] \in {"upload_read", "upload_process"}}}

\* C30: every temporary file that exists belongs to an /upload request that
\* has not finished yet: when a request finishes, with a result or with any
\* failure, the file it created is gone.
C30_TempFilesRemoved == tmpdir.files \subseteq TmpInUse

=============================================================================
